---- MODULE Spec2Model ----
(***************************************************************************)
(* Durable task queue of the booking-inquiry dashboard: the pending_tasks  *)
(* table, the worker loop of postgres_worker.process_pending_tasks, the    *)
(* dispatcher handle_task, the ingestion handlers                          *)
(* handle_process_single_email and handle_new_whatsapp_message with the    *)
(* tables inquiries, extracted_data, emails and whatsapp_messages, and the *)
(* poller poll_new_emails.  The queue (Spec, SpecCrash, SpecRound) follows *)
(* the emails table by message id; the database phase of the handlers is   *)
(* SpecIngest (SpecExtract with the OpenAI API unreachable, SpecChat for   *)
(* the chat channel with repeated deliveries) and the poller is SpecPoll.  *)
(*                                                                         *)
(* Time is counted in seconds; the clock advances in steps of the backoff  *)
(* base.  The clock is only ever compared with scheduled_for, so the model *)
(* lets it advance while some pending task is scheduled in the future      *)
(* (idle stretches are compressed, which keeps every order of              *)
(* scheduled_for values).  A worker step is atomic between two             *)
(* interactions with the database; a call to the mail provider shares no   *)
(* state and is joined with the database step that follows it.  The        *)
(* database is assumed reachable (no OperationalError); the provider fetch *)
(* may fail.                                                               *)
(*                                                                         *)
(* Logging.  The worker calls logger.info/warning/error(..., flush=True).  *)
(* logging.Logger.info(msg, *args, **kwargs) forwards kwargs to            *)
(* Logger._log(level, msg, args, exc_info, extra, stack_info, stacklevel), *)
(* which has no parameter 'flush': when the level of the call is enabled   *)
(* the call raises TypeError, when it is disabled the call returns at the  *)
(* isEnabledFor test.  The effective level is process configuration        *)
(* (logging.basicConfig(level=INFO) takes effect only if the root logger   *)
(* has no handler yet), so it is an input of the model: logLevel.          *)
(***************************************************************************)
EXTENDS Integers, Sequences, FiniteSets, TLC

VARIABLES
    now,        \* datetime.now(timezone.utc), in seconds
    logLevel,   \* effective level of the worker's logger
    tasks,      \* table pending_tasks: row id i is tasks[i]
    pc,         \* position of each worker in process_pending_tasks
    cur,        \* task_id / task_to_process of each worker (0: none)
    hres,       \* what handle_task did for the worker's current task
    emails,     \* table emails (committed rows)
    handlerRuns,\* history: number of handle_task calls per task id
    dupAtStart, \* history: the Email row existed when the handler started
    payloads,   \* ingestion: what each delivered message carries
    inquiries,  \* table inquiries (committed rows): row id i is inquiries[i]
    extracted,  \* table extracted_data (committed rows)
    messages,   \* tables emails and whatsapp_messages with their inquiry link
    run,        \* the ingestion handler a worker executes, with its session
    outcome,    \* history: how the last handler run of each message ended
    faults,     \* history: number of database errors so far
    engine_up,  \* the OpenAI API answers the calls of the extraction service
    last_checked_timestamp, \* the module global of each worker process
    mailbox,    \* the provider's mailbox: message summaries
    poll        \* history: the last run of poll_new_emails

queueVars == <<now, logLevel, tasks, pc, cur, hres, emails, handlerRuns, dupAtStart>>
ingestVars == <<payloads, inquiries, extracted, messages, run, outcome, faults, engine_up>>
pollVars == <<last_checked_timestamp, mailbox, poll>>
vars == <<queueVars, ingestVars, pollVars>>

-----------------------------------------------------------------------------
(* Bounds *)
NumWorkers == 2
MaxTasks == 2

(* Program constants *)
MAX_TASK_RETRIES == 3
RETRY_BACKOFF_BASE_SECONDS == 60

(* Horizon of the clock: the backoff a task accumulates until its last attempt *)
MaxTime == RETRY_BACKOFF_BASE_SECONDS * (2 ^ (MAX_TASK_RETRIES - 1) - 1)

Workers == 1..NumWorkers
MsgIds == {1}
LogLevels == {"INFO", "WARNING", "CRITICAL"}
TaskTypes == {"process_single_email", "unknown_type"}
NoTime == 0 - 1
NoError == "none"

Min(a, b) == IF a <= b THEN a ELSE b

-----------------------------------------------------------------------------
(* Logger.isEnabledFor for the two levels the worker logs at *)
InfoEnabled == logLevel = "INFO"
ErrorEnabled == logLevel \in {"INFO", "WARNING"}

(* PendingTask(...) as the producers create it: status pending, attempts 0 *)
PendingTask(type, m, at) ==
    [task_type |-> type, msg |-> m, status |-> "pending", attempts |-> 0,
     scheduled_for |-> at, processed_at |-> NoTime, last_error |-> NoError]

TaskIds == 1..Len(tasks)

(* Variant: the claim statement takes no row lock *)
LockedNever(i) == FALSE

(* Row lock of SELECT ... FOR UPDATE, held until the session commits or is removed *)
Locked(i) == \E w \in Workers : pc[w] = "selected" /\ cur[w] = i

(* Variant: failed tasks are picked up again *)
EligibleRetryFailed(t, at) == t.status \in {"pending", "failed"} /\ t.scheduled_for <= at

(* Variant: the claim statement does not look at scheduled_for *)
EligibleAnyTime(t, at) == t.status = "pending"

(* WHERE status = 'pending' AND scheduled_for <= :now *)
Eligible(t, at) == t.status = "pending" /\ t.scheduled_for <= at

(* ORDER BY scheduled_for ASC, id ASC *)
Before(i, j) ==
    \/ tasks[i].scheduled_for < tasks[j].scheduled_for
    \/ tasks[i].scheduled_for = tasks[j].scheduled_for /\ i < j

(* ... FOR UPDATE SKIP LOCKED: the rows the statement may return *)
Claimable == {i \in TaskIds : Eligible(tasks[i], now) /\ ~Locked(i)}

(* Variant: the claim statement orders by id alone *)
FirstClaimableById == CHOOSE i \in Claimable : \A j \in Claimable : i <= j

(* LIMIT 1 *)
FirstClaimable == CHOOSE i \in Claimable : \A j \in Claimable \ {i} : Before(i, j)

(* Variant: the claim is not committed before the handler runs *)
CommitClaimDeferred(t) == t

(* Variant: the claim does not count the attempt *)
CommitClaimNoCount(t) == [t EXCEPT !.status = "processing"]

(* status = 'processing'; attempts += 1; commit *)
CommitClaim(t) == [t EXCEPT !.status = "processing", !.attempts = @ + 1]

(* backoff_seconds = RETRY_BACKOFF_BASE_SECONDS * (2 ** (attempts - 1)) *)
backoff_seconds(attempts) == RETRY_BACKOFF_BASE_SECONDS * (2 ^ (attempts - 1))

(* Variant: the success branch leaves last_error alone *)
MarkSuccessKeepError(t, at) ==
    [t EXCEPT !.status = "success", !.processed_at = at]

(* the success branch of the worker *)
MarkSuccess(t, at) ==
    [t EXCEPT !.status = "success", !.processed_at = at, !.last_error = NoError]

(* Variant: the retry bound is tested with > *)
MarkErrorOffByOne(t, at) ==
    IF t.attempts > MAX_TASK_RETRIES
    THEN [t EXCEPT !.status = "failed", !.last_error = "err"]
    ELSE [t EXCEPT !.status = "pending", !.last_error = "err",
                   !.scheduled_for = at + backoff_seconds(t.attempts)]

(* the except branch of the worker: failed at the retry bound, else retry *)
MarkError(t, at) ==
    IF t.attempts >= MAX_TASK_RETRIES
    THEN [t EXCEPT !.status = "failed", !.last_error = "err"]
    ELSE [t EXCEPT !.status = "pending", !.last_error = "err",
                   !.scheduled_for = at + backoff_seconds(t.attempts)]

(* primary key of emails: a committed row with this graph_id exists *)
EmailExists(m) == \E r \in emails : r.graph_id = m

(* Variant: every IntegrityError is re-raised *)
IntegrityReraise(exists) == "raise"

(* except IntegrityError: skipped if the Email row exists, else re-raise *)
IntegrityResult(exists) == IF exists THEN "skipped_integrity" ELSE "raise"

(* handle_task: where the dispatcher sends a task type; a type without a    *)
(* branch ends in raise ValueError("Unknown task type")                    *)
handle_task(type) ==
    CASE type = "process_single_email" -> "fetch"
      [] type = "poll_all_new_emails" -> "poll"
      [] type = "new_whatsapp_message" -> "chat"
      [] OTHER -> "raise"

(* The task types the program itself writes to pending_tasks: the poller,  *)
(* the scheduler callback and the manual poll route, the chat webhook      *)
ProducedTaskTypes ==
    {"process_single_email", "poll_all_new_emails", "process_whatsapp_message"}

HandlerPcs == {"fetch", "write", "commit", "poll", "chat"}

(* The email handler of worker w has called fetch_email_details: the call  *)
(* (and, when it returns a message, extract_travel_data and                *)
(* fetch_attachments_list) precedes db.session.get(Email, email_graph_id)  *)
FetchCalled(w) ==
    /\ pc[w] \in {"write", "commit", "finish"}
    /\ tasks[cur[w]].task_type = "process_single_email"

Holding(w, i) == cur[w] = i /\ pc[w] \in HandlerPcs \cup {"selected", "finish"}

-----------------------------------------------------------------------------
(* Ingestion: the database phase of handle_process_single_email and of     *)
(* handle_new_whatsapp_message.  Each handler runs in a transaction of its *)
(* own under READ COMMITTED: a query sees the rows committed before it, a  *)
(* flush followed by the commit is one step (a statement that waits for a  *)
(* row lock ends as it would when issued after the other commit).          *)
(* A data map is a function on the essential fields; a key that is absent  *)
(* and a key with an empty value are the same to every test of the code    *)
(* (not d.get(f), key not in d or not d[key]) and both are Empty here.     *)

(* Bound on injected database errors *)
MaxFaults == 1

(* Program constants *)
POLL_INTERVAL_SECONDS == 120
INITIAL_POLL_CATCHUP_DAYS == 7

ESSENTIAL_EXTRACTION_FIELDS ==
    <<"first_name", "last_name", "travel_start_date", "travel_end_date", "trip_cost">>

Fields == {ESSENTIAL_EXTRACTION_FIELDS[k] : k \in 1..Len(ESSENTIAL_EXTRACTION_FIELDS)}
Empty == ""
EmptyMap == [f \in Fields |-> Empty]
OnlyFirstName(v) == [f \in Fields |-> IF f = "first_name" THEN v ELSE Empty]
AllButFirstName == [f \in Fields |-> IF f = "first_name" THEN Empty ELSE "a"]

(* What extract_travel_data returns for a message: has_keys is the truth   *)
(* value of the dict (a dict with at least one key); text tells whether    *)
(* the message carries a body, a text or a caption at all                  *)
Extractions ==
    {[text |-> TRUE, has_keys |-> FALSE, data |-> EmptyMap],
     [text |-> TRUE, has_keys |-> TRUE, data |-> OnlyFirstName("a")],
     [text |-> TRUE, has_keys |-> TRUE, data |-> OnlyFirstName("b")],
     [text |-> TRUE, has_keys |-> TRUE, data |-> AllButFirstName]}

(* A chat message without text and without caption: text_message is None *)
NoText == [text |-> FALSE, has_keys |-> FALSE, data |-> EmptyMap]

Channels == {"email", "whatsapp"}
IngestMsgs == {1, 2, 3}
Payloads == [channel : Channels, extraction : Extractions, ids : {TRUE}]

(* Chat messages: without text, with a first name, with all but the name *)
ChatPayloads ==
    [channel : {"whatsapp"},
     extraction : {NoText} \cup {e \in Extractions : e.data \in {OnlyFirstName("a"),
                                                                 AllButFirstName}},
     ids : {TRUE}]
    \cup {[channel |-> "whatsapp", extraction |-> NoText, ids |-> FALSE]}

(* Variant: the payload is not tested for its identifiers *)
EssentialIdsAssumed(p) == TRUE

(* not (not id_message or not chat_id or not sender): ids tells whether    *)
(* the payload carries idMessage, senderData.chatId and senderData.sender  *)
EssentialIdsPresent(p) == p.ids

(* Variant: the except branch stores a failed row for every message *)
FailedRowStoredAlways(chat, created) == TRUE

(* Whether a run that failed in its database phase leaves a row of its     *)
(* message: the email handler adds the Email row again with                *)
(* processing_status 'failed' and commits, which the database accepts when *)
(* the row's inquiry is committed; the chat handler only rolls back        *)
FailedRowStored(chat, created) == ~chat /\ ~created

(* extract_travel_data: {} when there is no text content; else the local   *)
(* results with the non-empty values of the OpenAI results written over    *)
(* them.  A failed OpenAI call is caught (extract_data_with_openai returns *)
(* None, or the except branch around the call logs it) and the local       *)
(* results are returned; the regular expressions of the local extraction   *)
(* find none of the essential fields in the messages modelled here.        *)
extract_travel_data(e, up) ==
    IF ~e.has_keys \/ up THEN e ELSE [e EXCEPT !.data = EmptyMap]

(* The identity an Inquiry is looked up by: the sender address of an email, *)
(* f"whatsapp_{chat_id}@internal.placeholder" for a chat message            *)
Identity(channel) ==
    IF channel = "email" THEN "customer.example.org"
    ELSE "whatsapp_chat1.internal.placeholder"

(* [field for field in essential_fields if not data.get(field)] *)
missing_fields_list(data) ==
    SelectSeq(ESSENTIAL_EXTRACTION_FIELDS, LAMBDA f : data[f] = Empty)

(* "Incomplete" if missing_fields_list else "Complete" *)
validation_status(data) ==
    IF missing_fields_list(data) = <<>> THEN "Complete" ELSE "Incomplete"

(* the merge loop: if value and (key not in merged_data or not merged_data[key]) *)
merged_data(current, new) ==
    [f \in Fields |-> IF new[f] # Empty /\ current[f] = Empty THEN new[f] ELSE current[f]]

(* the flag "updated" of the merge loop *)
updated(current, new) == \E f \in Fields : new[f] # Empty /\ current[f] = Empty

NoRow == [inquiry_id |-> 0, data |-> EmptyMap, validation_status |-> "none",
          missing_fields |-> <<>>, updated_by_user_id |-> 0]
ExtractedColumns == {"data", "validation_status", "missing_fields"}

(* query(ExtractedData).filter_by(inquiry_id=...) over the committed rows *)
ExtractedOf(i) == {r \in extracted : r.inquiry_id = i}

(* query(Inquiry).filter_by(primary_email_address=...) over the committed rows *)
InquiriesOf(ident) ==
    {i \in 1..Len(inquiries) : inquiries[i].primary_email_address = ident}

(* Variant: the lookup of the stored message finds nothing *)
MessageExistsNever(m) == FALSE

(* db.session.get(Email, id) / query(WhatsAppMessage).filter_by(id=...) *)
MessageExists(m) == \E r \in messages : r.id = m

IdleRun == [pc |-> "idle", msg |-> 0, inq |-> 0, created |-> FALSE, kind |-> "none",
            read |-> NoRow, write |-> NoRow, inq_status |-> "keep",
            engine_called |-> FALSE]

(* Variant: every new Inquiry starts with the status new *)
NewInquiryStatusPlain(chat, inq_status) == "new"

(* The status a new Inquiry is committed with: the validation status the   *)
(* handler assigned after an extraction, else the status of the            *)
(* constructor call (new_whatsapp for a chat, the column default new)      *)
NewInquiryStatus(chat, inq_status) ==
    IF inq_status # "keep" THEN inq_status
    ELSE IF chat THEN "new_whatsapp" ELSE "new"

(* UPDATE extracted_data SET ...: the unit of work writes the columns whose *)
(* value differs from the value the session loaded                          *)
FlushUpdate(row, read, write) ==
    [c \in DOMAIN row |->
        IF c \in ExtractedColumns /\ write[c] # read[c] THEN write[c] ELSE row[c]]

(* The ingestion tables and sessions when no ingestion has happened *)
IngestIdle ==
    /\ payloads = [m \in IngestMsgs |->
                      [channel |-> "email",
                       extraction |-> [text |-> TRUE, has_keys |-> FALSE, data |-> EmptyMap],
                       ids |-> TRUE]]
    /\ inquiries = <<>>
    /\ extracted = {}
    /\ messages = {}
    /\ run = [w \in Workers |-> IdleRun]
    /\ outcome = [m \in IngestMsgs |-> "none"]
    /\ faults = 0
    /\ engine_up = TRUE

(* timedelta(days=default_catchup_days), in seconds *)
CatchupSeconds == INITIAL_POLL_CATCHUP_DAYS * 86400

NoPoll == [ran |-> FALSE, by |-> 0, failed |-> FALSE, raised |-> FALSE,
           fetch_raised |-> FALSE,
           batch |-> {}, created |-> {}, classify_failed |-> 0, insert_failed |-> 0,
           before |-> NoTime, after |-> NoTime, since |-> 0, durable |-> NoTime,
           newest |-> NoTime, enqueued |-> 0, written |-> NoTime, runs |-> 0]

(* The poller's state in a fresh deployment *)
PollIdle ==
    /\ last_checked_timestamp = [w \in Workers |-> NoTime]
    /\ mailbox = {}
    /\ poll = NoPoll

-----------------------------------------------------------------------------
Init ==
    /\ now = 0
    /\ logLevel \in LogLevels
    /\ tasks = <<>>
    /\ pc = [w \in Workers |-> "idle"]
    /\ cur = [w \in Workers |-> 0]
    /\ hres = [w \in Workers |-> "none"]
    /\ emails = {}
    /\ handlerRuns = [i \in 1..MaxTasks |-> 0]
    /\ dupAtStart = [w \in Workers |-> FALSE]
    /\ IngestIdle
    /\ PollIdle

(* A producer inserts a task row (poller, scheduler callback, routes) *)
Enqueue ==
    /\ Len(tasks) < MaxTasks
    /\ \E type \in TaskTypes, m \in MsgIds :
          /\ type # "process_single_email" => m = 1
          /\ tasks' = Append(tasks, PendingTask(type, m, now))
    /\ UNCHANGED <<now, logLevel, pc, cur, hres, emails, handlerRuns, dupAtStart>>
    /\ UNCHANGED <<ingestVars, pollVars>>

(* datetime.now() advances towards the scheduled_for of a waiting task *)
Tick ==
    /\ now < MaxTime
    /\ \E i \in TaskIds : tasks[i].status = "pending" /\ tasks[i].scheduled_for > now
    /\ now' = now + RETRY_BACKOFF_BASE_SECONDS
    /\ UNCHANGED <<logLevel, tasks, pc, cur, hres, emails, handlerRuns, dupAtStart>>
    /\ UNCHANGED <<ingestVars, pollVars>>

(* The claim statement returns a row: the worker holds its lock *)
SelectTask(w) ==
    /\ pc[w] = "idle"
    /\ Claimable # {}
    /\ cur' = [cur EXCEPT ![w] = FirstClaimable]
    /\ pc' = [pc EXCEPT ![w] = "selected"]
    /\ UNCHANGED <<now, logLevel, tasks, hres, emails, handlerRuns, dupAtStart>>
    /\ UNCHANGED <<ingestVars, pollVars>>

(* The claim statement returns no row: the worker enters time.sleep *)
SelectNone(w) ==
    /\ pc[w] = "idle"
    /\ Claimable = {}
    /\ pc' = [pc EXCEPT ![w] = "sleep"]
    /\ UNCHANGED <<now, logLevel, tasks, cur, hres, emails, handlerRuns, dupAtStart>>
    /\ UNCHANGED <<ingestVars, pollVars>>

(* A whole empty iteration: the claim statement returns no row, the worker *)
(* sleeps WORKER_LOOP_SLEEP_SECONDS and is back at the top of the loop     *)
EmptyIteration(w) ==
    /\ pc[w] = "idle"
    /\ Claimable = {}
    /\ UNCHANGED vars

(* logger.info("Claimed task", flush=True) raises when INFO is enabled; the *)
(* outer except logs with flush=True too, raises again, and the loop ends   *)
(* with the session removed (lock released, row unchanged).                 *)
ClaimRaises(w) ==
    /\ pc[w] = "selected"
    /\ InfoEnabled
    /\ pc' = [pc EXCEPT ![w] = "exited"]
    /\ cur' = [cur EXCEPT ![w] = 0]
    /\ UNCHANGED <<now, logLevel, tasks, hres, emails, handlerRuns, dupAtStart>>
    /\ UNCHANGED <<ingestVars, pollVars>>

(* status = processing, attempts += 1, commit; then handle_task is called *)
ClaimTask(w) ==
    /\ pc[w] = "selected"
    /\ ~InfoEnabled
    /\ LET i == cur[w]
           to == handle_task(tasks[i].task_type)
       IN /\ tasks' = [tasks EXCEPT ![i] = CommitClaim(@)]
          /\ handlerRuns' = [handlerRuns EXCEPT ![i] = @ + 1]
          /\ dupAtStart' = [dupAtStart EXCEPT ![w] =
                 tasks[i].task_type = "process_single_email" /\ EmailExists(tasks[i].msg)]
          /\ IF to = "raise"
             THEN /\ pc' = [pc EXCEPT ![w] = "finish"]
                  /\ hres' = [hres EXCEPT ![w] = "raise"]
             ELSE /\ pc' = [pc EXCEPT ![w] = to]
                  /\ hres' = [hres EXCEPT ![w] = "none"]
    /\ UNCHANGED <<now, logLevel, cur, emails>>
    /\ UNCHANGED <<ingestVars, pollVars>>

(* handle_process_single_email up to the duplicate check: fetch details   *)
(* (None raises), extract, fetch attachments, then                        *)
(* existing_email_check = db.session.get(Email, email_graph_id)           *)
EmailFetch(w) ==
    /\ pc[w] = "fetch"
    /\ \E ok \in BOOLEAN :
          IF ~ok
          THEN /\ pc' = [pc EXCEPT ![w] = "finish"]
               /\ hres' = [hres EXCEPT ![w] = "raise"]
          ELSE IF EmailExists(tasks[cur[w]].msg)
               THEN /\ pc' = [pc EXCEPT ![w] = "finish"]
                    /\ hres' = [hres EXCEPT ![w] = "skipped_exists"]
               ELSE /\ pc' = [pc EXCEPT ![w] = "write"]
                    /\ UNCHANGED hres
    /\ UNCHANGED <<now, logLevel, tasks, cur, emails, handlerRuns, dupAtStart>>
    /\ UNCHANGED <<ingestVars, pollVars>>

(* The INSERT of the Email row reaches the database (flush).  It waits for *)
(* an uncommitted insert of the same key, and fails with IntegrityError if *)
(* a committed row has the key.                                            *)
EmailWrite(w) ==
    /\ pc[w] = "write"
    /\ LET m == tasks[cur[w]].msg
       IN /\ ~\E v \in Workers \ {w} : pc[v] = "commit" /\ tasks[cur[v]].msg = m
          /\ IF EmailExists(m)
             THEN /\ pc' = [pc EXCEPT ![w] = "finish"]
                  /\ hres' = [hres EXCEPT ![w] = IntegrityResult(EmailExists(m))]
             ELSE /\ pc' = [pc EXCEPT ![w] = "commit"]
                  /\ UNCHANGED hres
    /\ UNCHANGED <<now, logLevel, tasks, cur, emails, handlerRuns, dupAtStart>>
    /\ UNCHANGED <<ingestVars, pollVars>>

(* processing_status = 'processed'; db.session.commit(); return success *)
EmailCommit(w) ==
    /\ pc[w] = "commit"
    /\ emails' = emails \cup {[graph_id |-> tasks[cur[w]].msg,
                               processing_status |-> "processed", by |-> cur[w]]}
    /\ pc' = [pc EXCEPT ![w] = "finish"]
    /\ hres' = [hres EXCEPT ![w] = "success"]
    /\ UNCHANGED <<now, logLevel, tasks, cur, handlerRuns, dupAtStart>>
    /\ UNCHANGED <<ingestVars, pollVars>>

(* handle_task returned: status success, processed_at, commit *)
FinishSuccess(w) ==
    /\ pc[w] = "finish"
    /\ hres[w] # "raise"
    /\ tasks' = [tasks EXCEPT ![cur[w]] = MarkSuccess(@, now)]
    /\ pc' = [pc EXCEPT ![w] = "idle"]
    /\ cur' = [cur EXCEPT ![w] = 0]
    /\ hres' = [hres EXCEPT ![w] = "none"]
    /\ dupAtStart' = [dupAtStart EXCEPT ![w] = FALSE]
    /\ UNCHANGED <<now, logLevel, emails, handlerRuns>>
    /\ UNCHANGED <<ingestVars, pollVars>>

(* handle_task raised and logger.error is disabled: failed or retry, commit *)
FinishError(w) ==
    /\ pc[w] = "finish"
    /\ hres[w] = "raise"
    /\ ~ErrorEnabled
    /\ tasks' = [tasks EXCEPT ![cur[w]] = MarkError(@, now)]
    /\ pc' = [pc EXCEPT ![w] = "idle"]
    /\ cur' = [cur EXCEPT ![w] = 0]
    /\ hres' = [hres EXCEPT ![w] = "none"]
    /\ dupAtStart' = [dupAtStart EXCEPT ![w] = FALSE]
    /\ UNCHANGED <<now, logLevel, emails, handlerRuns>>
    /\ UNCHANGED <<ingestVars, pollVars>>

(* handle_task raised and logger.error(..., flush=True) raises inside the  *)
(* except block: the finally commits the row as it is (processing), the    *)
(* outer except raises the same way, and the loop ends.                    *)
FinishRaises(w) ==
    /\ pc[w] = "finish"
    /\ hres[w] = "raise"
    /\ ErrorEnabled
    /\ pc' = [pc EXCEPT ![w] = "exited"]
    /\ cur' = [cur EXCEPT ![w] = 0]
    /\ hres' = [hres EXCEPT ![w] = "none"]
    /\ dupAtStart' = [dupAtStart EXCEPT ![w] = FALSE]
    /\ UNCHANGED <<now, logLevel, tasks, emails, handlerRuns>>
    /\ UNCHANGED <<ingestVars, pollVars>>

(* The worker process is killed while it holds a task: its session ends, an *)
(* open transaction is rolled back and its row lock released.  (A worker    *)
(* killed while idle is a worker that takes no further step.)               *)
Kill(w) ==
    /\ pc[w] \in HandlerPcs \cup {"selected", "finish"}
    /\ pc' = [pc EXCEPT ![w] = "killed"]
    /\ cur' = [cur EXCEPT ![w] = 0]
    /\ hres' = [hres EXCEPT ![w] = "none"]
    /\ dupAtStart' = [dupAtStart EXCEPT ![w] = FALSE]
    /\ UNCHANGED <<now, logLevel, tasks, emails, handlerRuns>>
    /\ UNCHANGED <<ingestVars, pollVars>>

(* A producer of the program inserts a task row *)
EnqueueProduced ==
    /\ Len(tasks) < MaxTasks
    /\ \E type \in ProducedTaskTypes :
          tasks' = Append(tasks, PendingTask(type, 1, now))
    /\ UNCHANGED <<now, logLevel, pc, cur, hres, emails, handlerRuns, dupAtStart>>
    /\ UNCHANGED <<ingestVars, pollVars>>

(* poll_new_emails or handle_new_whatsapp_message, called by handle_task,  *)
(* returns or raises (their effect on the tables is SpecPoll, SpecIngest)  *)
HandlerReturns(w) ==
    /\ pc[w] \in {"poll", "chat"}
    /\ \E ok \in BOOLEAN :
          hres' = [hres EXCEPT ![w] = IF ok THEN "success" ELSE "raise"]
    /\ pc' = [pc EXCEPT ![w] = "finish"]
    /\ UNCHANGED <<now, logLevel, tasks, cur, emails, handlerRuns, dupAtStart>>
    /\ UNCHANGED <<ingestVars, pollVars>>

Next ==
    \/ Enqueue
    \/ Tick
    \/ \E w \in Workers : SelectTask(w)
    \/ \E w \in Workers : EmptyIteration(w)
    \/ \E w \in Workers : ClaimRaises(w)
    \/ \E w \in Workers : ClaimTask(w)
    \/ \E w \in Workers : EmailFetch(w)
    \/ \E w \in Workers : EmailWrite(w)
    \/ \E w \in Workers : EmailCommit(w)
    \/ \E w \in Workers : FinishSuccess(w)
    \/ \E w \in Workers : FinishError(w)
    \/ \E w \in Workers : FinishRaises(w)

Spec == Init /\ [][Next]_vars

(* The next statement of worker w's loop that changes its position *)
WorkerStep(w) ==
    \/ SelectTask(w)
    \/ ClaimRaises(w)
    \/ ClaimTask(w)
    \/ EmailFetch(w)
    \/ EmailWrite(w)
    \/ EmailCommit(w)
    \/ FinishSuccess(w)
    \/ FinishError(w)
    \/ FinishRaises(w)

(* A worker process that has not exited goes on running, a handler call    *)
(* ends, and the clock advances                                            *)
SpecLive ==
    /\ Init
    /\ [][Next]_vars
    /\ WF_vars(Tick)
    /\ \A w \in Workers : WF_vars(WorkerStep(w))

(* The worker loops on the tasks the program's own producers enqueue *)
NextProducers ==
    \/ EnqueueProduced
    \/ Tick
    \/ \E w \in Workers : SelectTask(w)
    \/ \E w \in Workers : EmptyIteration(w)
    \/ \E w \in Workers : ClaimRaises(w)
    \/ \E w \in Workers : ClaimTask(w)
    \/ \E w \in Workers : EmailFetch(w)
    \/ \E w \in Workers : EmailWrite(w)
    \/ \E w \in Workers : EmailCommit(w)
    \/ \E w \in Workers : HandlerReturns(w)
    \/ \E w \in Workers : FinishSuccess(w)
    \/ \E w \in Workers : FinishError(w)
    \/ \E w \in Workers : FinishRaises(w)

SpecProducers == Init /\ [][NextProducers]_vars

(* The worker loops together with the death of worker processes *)
NextCrash ==
    \/ Next
    \/ \E w \in Workers : Kill(w)

SpecCrash == Init /\ [][NextCrash]_vars

-----------------------------------------------------------------------------
(* One claim round: M pending due tasks, every worker makes one claim      *)
(* attempt (the claim statement, then the commit of status processing).    *)
InitRound ==
    /\ now = 0
    /\ logLevel \in LogLevels
    /\ \E n \in 0..MaxTasks :
          tasks \in [1..n -> {PendingTask(type, 1, 0) : type \in TaskTypes}]
    /\ pc = [w \in Workers |-> "idle"]
    /\ cur = [w \in Workers |-> 0]
    /\ hres = [w \in Workers |-> "none"]
    /\ emails = {}
    /\ handlerRuns = [i \in 1..MaxTasks |-> 0]
    /\ dupAtStart = [w \in Workers |-> FALSE]
    /\ IngestIdle
    /\ PollIdle

NextRound ==
    \/ \E w \in Workers : SelectTask(w)
    \/ \E w \in Workers : SelectNone(w)
    \/ \E w \in Workers : ClaimRaises(w)
    \/ \E w \in Workers : ClaimTask(w)

SpecRound == InitRound /\ [][NextRound]_vars

RoundOver == \A w \in Workers : pc[w] \notin {"idle", "selected"}
ClaimedTasks == {i \in TaskIds : tasks[i].status = "processing"}

-----------------------------------------------------------------------------
(* Ingestion handlers.  The worker that runs a handler has claimed a task  *)
(* of the message; a raised handler is run again by the worker's retry     *)
(* (logger.error disabled, see FinishError).                               *)

InitIngest ==
    /\ now = 0
    /\ logLevel = "CRITICAL"
    /\ tasks = <<>>
    /\ pc = [w \in Workers |-> "idle"]
    /\ cur = [w \in Workers |-> 0]
    /\ hres = [w \in Workers |-> "none"]
    /\ emails = {}
    /\ handlerRuns = [i \in 1..MaxTasks |-> 0]
    /\ dupAtStart = [w \in Workers |-> FALSE]
    /\ payloads \in [IngestMsgs -> Payloads]
    /\ inquiries = <<>>
    /\ extracted = {}
    /\ messages = {}
    /\ run = [w \in Workers |-> IdleRun]
    /\ outcome = [m \in IngestMsgs |-> "none"]
    /\ faults = 0
    /\ engine_up = TRUE
    /\ PollIdle

(* handle_task calls the handler of a message.  The email handler fetches, *)
(* extracts and returns skipped if db.session.get(Email, id) finds a row;  *)
(* the chat handler parses the payload and raises ValueError if an         *)
(* identifier is missing.                                                  *)
IngestStart(w) ==
    /\ run[w].pc = "idle"
    /\ \E m \in IngestMsgs :
          /\ outcome[m] \in {"none", "raised"}
          /\ \A v \in Workers : run[v].msg # m
          /\ IF payloads[m].channel = "whatsapp" /\ ~EssentialIdsPresent(payloads[m])
             THEN /\ outcome' = [outcome EXCEPT ![m] = "raised"]
                  /\ UNCHANGED run
             ELSE IF payloads[m].channel = "email" /\ MessageExists(m)
             THEN /\ outcome' = [outcome EXCEPT ![m] = "skipped"]
                  /\ UNCHANGED run
             ELSE /\ run' = [run EXCEPT ![w] =
                              [IdleRun EXCEPT !.pc = "resolve", !.msg = m,
                                              !.engine_called =
                                                  payloads[m].channel = "email"]]
                  /\ outcome' = [outcome EXCEPT ![m] = "running"]
    /\ UNCHANGED <<payloads, inquiries, extracted, messages, faults, engine_up>>
    /\ UNCHANGED <<queueVars, pollVars>>

(* query(Inquiry).filter_by(primary_email_address=...).first(), else a new  *)
(* Inquiry is added and flushed; the chat handler then returns skipped if  *)
(* a WhatsAppMessage row with the id exists.                               *)
IngestResolve(w) ==
    /\ run[w].pc = "resolve"
    /\ LET m == run[w].msg
           found == InquiriesOf(Identity(payloads[m].channel))
       IN IF payloads[m].channel = "whatsapp" /\ MessageExists(m)
          THEN /\ run' = [run EXCEPT ![w] = IdleRun]
               /\ outcome' = [outcome EXCEPT ![m] = "skipped"]
          ELSE /\ IF found = {}
                  THEN run' = [run EXCEPT ![w].pc = "upsert", ![w].created = TRUE]
                  ELSE \E i \in found :
                          run' = [run EXCEPT ![w].pc = "upsert", ![w].inq = i]
               /\ UNCHANGED outcome
    /\ UNCHANGED <<payloads, inquiries, extracted, messages, faults, engine_up>>
    /\ UNCHANGED <<queueVars, pollVars>>

(* query(ExtractedData).filter_by(inquiry_id=...).first(): a new row is     *)
(* prepared from the extracted map, or the extracted map is merged into a  *)
(* copy of the stored one.  The email handler recomputes validation_status *)
(* of the row after a merge; the chat handler recomputes a local variable  *)
(* that it assigns to inquiry.status, and only does any of this when the   *)
(* extracted dict is non-empty; it calls extract_travel_data only          *)
(* if text_message.                                                        *)
IngestUpsert(w) ==
    /\ run[w].pc = "upsert"
    /\ LET m == run[w].msg
           chat == payloads[m].channel = "whatsapp"
           called == IF chat THEN payloads[m].extraction.text ELSE run[w].engine_called
           ext == IF called THEN extract_travel_data(payloads[m].extraction, engine_up)
                  ELSE NoText
           new == ext.data
           rows == IF run[w].created THEN {} ELSE ExtractedOf(run[w].inq)
       IN IF chat /\ ~ext.has_keys
          THEN run' = [run EXCEPT ![w].pc = "commit", ![w].engine_called = called]
          ELSE IF rows = {}
          THEN run' = [run EXCEPT ![w].pc = "commit", ![w].kind = "insert",
                         ![w].engine_called = called,
                         ![w].write = [inquiry_id |-> run[w].inq, data |-> new,
                                       validation_status |-> validation_status(new),
                                       missing_fields |-> missing_fields_list(new),
                                       updated_by_user_id |-> 0],
                         ![w].inq_status =
                             IF chat THEN validation_status(new) ELSE "keep"]
          ELSE LET row == CHOOSE r \in rows : TRUE
                   merged == merged_data(row.data, new)
               IN IF updated(row.data, new)
                  THEN run' = [run EXCEPT ![w].pc = "commit", ![w].kind = "update",
                                 ![w].engine_called = called,
                                 ![w].read = row,
                                 ![w].write = [row EXCEPT
                                     !.data = merged,
                                     !.validation_status =
                                         IF chat THEN @ ELSE validation_status(merged),
                                     !.missing_fields = missing_fields_list(merged)],
                                 ![w].inq_status =
                                     IF chat THEN validation_status(merged) ELSE "keep"]
                  ELSE run' = [run EXCEPT ![w].pc = "commit",
                                 ![w].engine_called = called,
                                 ![w].inq_status =
                                     IF chat THEN row.validation_status ELSE "keep"]
    /\ UNCHANGED <<payloads, inquiries, extracted, messages, outcome, faults, engine_up>>
    /\ UNCHANGED <<queueVars, pollVars>>

(* The rest of the database phase up to db.session.commit().  The flush    *)
(* fails with IntegrityError when the prepared ExtractedData insert meets  *)
(* a committed row of the inquiry (inquiry_id is unique), or with another  *)
(* database error.  Both except branches roll back; the email handler then *)
(* stores the Email row with processing_status 'failed', which the         *)
(* database accepts when the row's inquiry is committed, and re-raises.    *)
IngestCommit(w) ==
    /\ run[w].pc = "commit"
    /\ LET m == run[w].msg
           chat == payloads[m].channel = "whatsapp"
           iid == IF run[w].created THEN Len(inquiries) + 1 ELSE run[w].inq
           conflict == /\ run[w].kind = "insert"
                       /\ ~run[w].created
                       /\ ExtractedOf(run[w].inq) # {}
       IN \E error \in BOOLEAN :
            /\ error => faults < MaxFaults
            /\ IF error \/ conflict
               THEN /\ messages' =
                          IF FailedRowStored(chat, run[w].created)
                          THEN messages \cup {[id |-> m, processing_status |-> "failed",
                                               inquiry_id |-> run[w].inq]}
                          ELSE messages
                    /\ outcome' = [outcome EXCEPT ![m] = "raised"]
                    /\ faults' = IF error THEN faults + 1 ELSE faults
                    /\ UNCHANGED <<inquiries, extracted>>
               ELSE /\ inquiries' =
                          IF run[w].created
                          THEN Append(inquiries,
                                   [primary_email_address |-> Identity(payloads[m].channel),
                                    status |-> NewInquiryStatus(chat, run[w].inq_status)])
                          ELSE IF run[w].inq_status # "keep"
                               THEN [inquiries EXCEPT ![iid].status = run[w].inq_status]
                               ELSE inquiries
                    /\ messages' = messages \cup
                          {[id |-> m, processing_status |-> "processed", inquiry_id |-> iid]}
                    /\ extracted' =
                          CASE run[w].kind = "insert" ->
                                 extracted \cup {[run[w].write EXCEPT !.inquiry_id = iid]}
                            [] run[w].kind = "update" ->
                                 {IF r.inquiry_id = iid
                                  THEN FlushUpdate(r, run[w].read, run[w].write)
                                  ELSE r : r \in extracted}
                            [] OTHER -> extracted
                    /\ outcome' = [outcome EXCEPT ![m] = "success"]
                    /\ UNCHANGED faults
    /\ run' = [run EXCEPT ![w] = IdleRun]
    /\ UNCHANGED <<payloads, engine_up>>
    /\ UNCHANGED <<queueVars, pollVars>>

NextIngest ==
    \/ \E w \in Workers : IngestStart(w)
    \/ \E w \in Workers : IngestResolve(w)
    \/ \E w \in Workers : IngestUpsert(w)
    \/ \E w \in Workers : IngestCommit(w)

SpecIngest == InitIngest /\ [][NextIngest]_vars

(* Ingestion while the OpenAI API is unreachable *)
InitExtract ==
    /\ now = 0
    /\ logLevel = "CRITICAL"
    /\ tasks = <<>>
    /\ pc = [w \in Workers |-> "idle"]
    /\ cur = [w \in Workers |-> 0]
    /\ hres = [w \in Workers |-> "none"]
    /\ emails = {}
    /\ handlerRuns = [i \in 1..MaxTasks |-> 0]
    /\ dupAtStart = [w \in Workers |-> FALSE]
    /\ payloads \in [IngestMsgs -> Payloads]
    /\ inquiries = <<>>
    /\ extracted = {}
    /\ messages = {}
    /\ run = [w \in Workers |-> IdleRun]
    /\ outcome = [m \in IngestMsgs |-> "none"]
    /\ faults = 0
    /\ engine_up = FALSE
    /\ PollIdle

SpecExtract == InitExtract /\ [][NextIngest]_vars

(* The chat channel alone, with the provider delivering a message again    *)
InitChat ==
    /\ now = 0
    /\ logLevel = "CRITICAL"
    /\ tasks = <<>>
    /\ pc = [w \in Workers |-> "idle"]
    /\ cur = [w \in Workers |-> 0]
    /\ hres = [w \in Workers |-> "none"]
    /\ emails = {}
    /\ handlerRuns = [i \in 1..MaxTasks |-> 0]
    /\ dupAtStart = [w \in Workers |-> FALSE]
    /\ payloads \in [IngestMsgs -> ChatPayloads]
    /\ inquiries = <<>>
    /\ extracted = {}
    /\ messages = {}
    /\ run = [w \in Workers |-> IdleRun]
    /\ outcome = [m \in IngestMsgs |-> "none"]
    /\ faults = 0
    /\ engine_up = TRUE
    /\ PollIdle

(* A payload with an idMessage that was handled before reaches the handler *)
(* again (the provider repeats its webhook call, a task is run again)      *)
Redeliver(w) ==
    /\ run[w].pc = "idle"
    /\ \E m \in IngestMsgs :
          /\ outcome[m] \in {"success", "skipped"}
          /\ \A v \in Workers : run[v].msg # m
          /\ run' = [run EXCEPT ![w] = [IdleRun EXCEPT !.pc = "resolve", !.msg = m]]
          /\ outcome' = [outcome EXCEPT ![m] = "running"]
    /\ UNCHANGED <<payloads, inquiries, extracted, messages, faults, engine_up>>
    /\ UNCHANGED <<queueVars, pollVars>>

NextChat ==
    \/ NextIngest
    \/ \E w \in Workers : Redeliver(w)

SpecChat == InitChat /\ [][NextChat]_vars

(* Ingestion of emails while a user corrects extracted data by hand *)
ManualValue == "m"
ManualFields == {"first_name"}

InitManual ==
    /\ now = 0
    /\ logLevel = "CRITICAL"
    /\ tasks = <<>>
    /\ pc = [w \in Workers |-> "idle"]
    /\ cur = [w \in Workers |-> 0]
    /\ hres = [w \in Workers |-> "none"]
    /\ emails = {}
    /\ handlerRuns = [i \in 1..MaxTasks |-> 0]
    /\ dupAtStart = [w \in Workers |-> FALSE]
    /\ payloads \in [IngestMsgs ->
                        {p \in Payloads : /\ p.channel = "email"
                                          /\ p.extraction.data \in {OnlyFirstName("a"),
                                                                     AllButFirstName}}]
    /\ inquiries = <<>>
    /\ extracted = {}
    /\ messages = {}
    /\ run = [w \in Workers |-> IdleRun]
    /\ outcome = [m \in IngestMsgs |-> "none"]
    /\ faults = 0
    /\ engine_up = TRUE
    /\ PollIdle

(* update_extracted_data: the route loads the row, sets data to the        *)
(* submitted form values, validation_status to 'Manually Corrected' and    *)
(* updated_by_user_id to the user, and commits                             *)
ManualEdit ==
    /\ \E r \in extracted : \E f \in ManualFields :
          /\ r.data[f] # ManualValue
          /\ extracted' = (extracted \ {r}) \cup
                 {[r EXCEPT !.data = [@ EXCEPT ![f] = ManualValue],
                            !.validation_status = "Manually Corrected",
                            !.updated_by_user_id = 1]}
    /\ UNCHANGED <<payloads, inquiries, messages, run, outcome, faults, engine_up>>
    /\ UNCHANGED <<queueVars, pollVars>>

NextManual ==
    \/ NextIngest
    \/ ManualEdit

SpecManual == InitManual /\ [][NextManual]_vars

(* The ExtractedData row of an inquiry, NoRow if it has none *)
ExtractedRow(i) ==
    IF ExtractedOf(i) = {} THEN NoRow ELSE CHOOSE r \in ExtractedOf(i) : TRUE

(* The messages stored as processed for an inquiry *)
ProcessedFor(i) ==
    {m \in IngestMsgs : [id |-> m, processing_status |-> "processed", inquiry_id |-> i]
                            \in messages}

-----------------------------------------------------------------------------
(* The poller: poll_new_emails as the handler of a poll_all_new_emails     *)
(* task.  Every worker process has its own copy of the module global       *)
(* last_checked_timestamp (NoTime stands for None).                        *)

(* Bounds *)
MaxMail == 2
MaxPolls == 2

(* ms_graph_service.fetch_new_emails_since: receivedDateTime gt timestamp; *)
(* any error of the call is caught there and the result is []              *)
fetch_new_emails_since(timestamp, ok) ==
    IF ok THEN {s \in mailbox : s.received_at > timestamp} ELSE {}

(* Whether the call leaves fetch_new_emails_since as an exception: the body *)
(* is one try block whose except Exception returns []                      *)
fetch_new_emails_since_raises(ok) == FALSE

(* $orderby receivedDateTime asc *)
RECURSIVE InOrder(_)
InOrder(batch) ==
    IF batch = {} THEN <<>>
    ELSE LET first == CHOOSE s \in batch :
                         \A t \in batch : s.received_at < t.received_at
                                          \/ (s.received_at = t.received_at /\ s.id <= t.id)
         IN <<first>> \o InOrder(batch \ {first})

(* one PendingTask(task_type='process_single_email') per summary *)
RECURSIVE TasksFor(_, _)
TasksFor(summaries, at) ==
    IF summaries = <<>> THEN <<>>
    ELSE <<PendingTask("process_single_email", Head(summaries).id, at)>>
         \o TasksFor(Tail(summaries), at)

(* Variant: the loop over the batch ends at the first failed insert *)
CreatedTasksAbort(batch, insert_failed) ==
    {s \in batch : \A t \in batch :
        t.id = insert_failed =>
            \/ s.received_at < t.received_at
            \/ (s.received_at = t.received_at /\ s.id < t.id)}

(* The summaries of a batch that get a task row: the insert of each task   *)
(* is committed on its own, a failed one is rolled back and the loop goes  *)
(* on.  A classify_email_intent that raises leaves the default intent in   *)
(* the payload and the task is created all the same.                       *)
CreatedTasks(batch, insert_failed) == {s \in batch : s.id # insert_failed}

RECURSIVE MaxReceived(_)
MaxReceived(batch) ==
    IF batch = {} THEN NoTime
    ELSE LET s == CHOOSE t \in batch : TRUE
             rest == MaxReceived(batch \ {s})
         IN IF s.received_at > rest THEN s.received_at ELSE rest

InitPoll ==
    /\ now = 0
    /\ logLevel = "CRITICAL"
    /\ tasks = <<>>
    /\ pc = [w \in Workers |-> "idle"]
    /\ cur = [w \in Workers |-> 0]
    /\ hres = [w \in Workers |-> "none"]
    /\ emails = {}
    /\ handlerRuns = [i \in 1..MaxTasks |-> 0]
    /\ dupAtStart = [w \in Workers |-> FALSE]
    /\ IngestIdle
    /\ PollIdle

(* The clock advances by a poll interval *)
PollTick ==
    /\ now < MaxTime
    /\ now' = now + POLL_INTERVAL_SECONDS
    /\ UNCHANGED <<logLevel, tasks, pc, cur, hres, emails, handlerRuns, dupAtStart>>
    /\ UNCHANGED <<ingestVars, pollVars>>

(* The provider receives a message *)
MailArrives ==
    /\ Cardinality(mailbox) < MaxMail
    /\ mailbox' = mailbox \cup {[id |-> Cardinality(mailbox) + 1, received_at |-> now]}
    /\ UNCHANGED <<last_checked_timestamp, poll>>
    /\ UNCHANGED <<queueVars, ingestVars>>

(* poll_new_emails, one whole run in worker process w *)
PollRun(w) ==
    /\ poll.runs < MaxPolls
    /\ \E ok \in BOOLEAN :
         LET since_timestamp ==
                 IF last_checked_timestamp[w] = NoTime
                 THEN now - CatchupSeconds
                 ELSE last_checked_timestamp[w]
             current_check_time == now
             new_email_summaries == fetch_new_emails_since(since_timestamp, ok)
             ids == {s.id : s \in new_email_summaries}
         IN \E classify_failed \in ids \cup {0}, insert_failed \in ids \cup {0} :
            /\ classify_failed = 0 \/ insert_failed = 0   \* one failing call per run
            /\ tasks' = tasks \o
                   TasksFor(InOrder(CreatedTasks(new_email_summaries, insert_failed)), now)
            /\ last_checked_timestamp' =
                   [last_checked_timestamp EXCEPT ![w] = current_check_time]
            /\ poll' = [ran |-> TRUE, by |-> w, failed |-> ~ok, raised |-> FALSE,
                        fetch_raised |-> fetch_new_emails_since_raises(ok),
                        batch |-> ids,
                        created |-> {s.id : s \in CreatedTasks(new_email_summaries,
                                                              insert_failed)},
                        classify_failed |-> classify_failed,
                        insert_failed |-> insert_failed,
                        before |-> last_checked_timestamp[w],
                        after |-> current_check_time,
                        since |-> since_timestamp,
                        durable |-> poll.written,
                        newest |-> MaxReceived(new_email_summaries),
                        enqueued |-> Cardinality(new_email_summaries),
                        written |-> IF ok THEN current_check_time ELSE poll.written,
                        runs |-> poll.runs + 1]
    /\ UNCHANGED mailbox
    /\ UNCHANGED <<now, logLevel, pc, cur, hres, emails, handlerRuns, dupAtStart>>
    /\ UNCHANGED ingestVars

(* The worker process is started again: its module globals are initial *)
Restart(w) ==
    /\ last_checked_timestamp[w] # NoTime
    /\ last_checked_timestamp' = [last_checked_timestamp EXCEPT ![w] = NoTime]
    /\ UNCHANGED <<mailbox, poll>>
    /\ UNCHANGED <<queueVars, ingestVars>>

NextPoll ==
    \/ PollTick
    \/ MailArrives
    \/ \E w \in Workers : PollRun(w)
    \/ \E w \in Workers : Restart(w)

SpecPoll == InitPoll /\ [][NextPoll]_vars

-----------------------------------------------------------------------------
(* C1: a task is handed to at most one claimant: at no time do two workers *)
(* hold the same task, be it locked by the claim statement, in processing  *)
(* with its handler running, or awaiting the record of its outcome.        *)
C1_AtMostOneClaimant ==
    \A i \in TaskIds : Cardinality({w \in Workers : Holding(w, i)}) <= 1

C1_Witness ==
    \E w, v \in Workers :
        /\ w # v
        /\ pc[w] \in HandlerPcs /\ pc[v] \in HandlerPcs
        /\ cur[w] # cur[v]
        /\ tasks[cur[w]].status = "processing" /\ tasks[cur[v]].status = "processing"

(* C2: when every worker has made its claim attempt of a round that began  *)
(* with M pending due tasks, exactly min(N, M) distinct tasks are claimed, *)
(* and a worker that came back with no task leaves no pending task behind. *)
C2_RoundClaimsMin ==
    RoundOver =>
        /\ Cardinality(ClaimedTasks) = Min(NumWorkers, Len(tasks))
        /\ (\E w \in Workers : pc[w] = "sleep") =>
               \A i \in TaskIds : tasks[i].status = "processing"

(* C3: a task's status only changes pending->processing,                   *)
(* processing->success, processing->pending or processing->failed (so      *)
(* success and failed are final), and no task row is ever removed.         *)
LegalStatusChanges ==
    {<<"pending", "processing">>, <<"processing", "success">>,
     <<"processing", "pending">>, <<"processing", "failed">>}

C3_StatusTransitions ==
    [][/\ Len(tasks') >= Len(tasks)
       /\ \A i \in TaskIds :
            tasks'[i].status # tasks[i].status =>
                <<tasks[i].status, tasks'[i].status>> \in LegalStatusChanges]_vars

C3_Witness ==
    \E i, j \in TaskIds :
        /\ tasks[i].status = "failed" /\ tasks[i].attempts > 1
        /\ tasks[j].status = "success"

C5_RetryWithBackoff ==
    [][\A w \in Workers :
         /\ (/\ pc[w] = "finish" /\ hres[w] = "raise"
             /\ tasks[cur[w]].attempts < MAX_TASK_RETRIES
             /\ pc'[w] \notin {"finish", "killed"})
            => /\ tasks'[cur[w]].status = "pending"
               /\ tasks'[cur[w]].scheduled_for =
                     now + RETRY_BACKOFF_BASE_SECONDS * 2 ^ (tasks[cur[w]].attempts - 1)
               /\ tasks'[cur[w]].last_error # NoError
         /\ (pc[w] = "idle" /\ pc'[w] = "selected")
            => tasks[cur'[w]].scheduled_for <= now]_vars

(* C6: while a task's handler runs or has run, the task is committed as    *)
(* processing with the attempts counter already incremented; every Email   *)
(* row was written by a run of a task committed that way.                  *)
C6_ProcessingBeforeHandler ==
    /\ \A w \in Workers :
          pc[w] \in HandlerPcs \cup {"finish"} =>
              /\ tasks[cur[w]].status = "processing"
              /\ tasks[cur[w]].attempts = handlerRuns[cur[w]]
              /\ tasks[cur[w]].attempts >= 1
    /\ \A r \in emails : tasks[r.by].status # "pending" /\ tasks[r.by].attempts >= 1

C6_Witness ==
    \E w \in Workers :
        /\ pc[w] = "finish" /\ hres[w] = "success"
        /\ \E r \in emails : r.by = cur[w]

(* C7: the worker loop never ends because of a failure.                    *)
C7_LoopNeverExits == \A w \in Workers : pc[w] # "exited"

(* C8: every task in status processing has a live worker executing it.     *)
C8_ProcessingHasLiveWorker ==
    \A i \in TaskIds :
        tasks[i].status = "processing" =>
            \E w \in Workers : cur[w] = i /\ pc[w] \in HandlerPcs \cup {"finish"}

(* C9: at most one Email row exists per provider message id, and a run of  *)
(* the email handler that started when the row was already stored returns  *)
(* a skipped result.                                                       *)
C9_IdempotentIngestion ==
    /\ \A r1, r2 \in emails : r1.graph_id = r2.graph_id => r1 = r2
    /\ \A w \in Workers :
          (pc[w] = "finish" /\ dupAtStart[w]) =>
              hres[w] \in {"skipped_exists", "skipped_integrity"}

(* C10: when the insert of the Email row meets a committed row with the    *)
(* same id, the handler returns the skipped result of the IntegrityError   *)
(* branch, and the worker then records the task as success.                *)
C10_DuplicateInsertIsSuccess ==
    [][\A w \in Workers :
         /\ (/\ pc[w] = "write" /\ EmailExists(tasks[cur[w]].msg)
             /\ pc'[w] = "finish")
            => hres'[w] = "skipped_integrity"
         /\ (/\ pc[w] = "finish" /\ hres[w] = "skipped_integrity"
             /\ pc'[w] \notin {"finish", "killed"})
            => /\ tasks'[cur[w]].status = "success"
               /\ tasks'[cur[w]].scheduled_for = tasks[cur[w]].scheduled_for]_vars

C10_Witness ==
    \E w \in Workers :
        /\ pc[w] = "finish" /\ hres[w] = "skipped_integrity"
        /\ \E r \in emails : r.graph_id = tasks[cur[w]].msg /\ r.by # cur[w]

(* C11: a run of the email handler that raised in its database phase has   *)
(* left no row of its message behind, and a run that returns skipped       *)
(* finds the message stored as processed (a retry after a failure works    *)
(* on the message again).                                                  *)
C11_FailedRunLeavesNothing ==
    /\ \A m \in IngestMsgs : outcome[m] = "raised" => ~MessageExists(m)
    /\ \A m \in IngestMsgs :
          outcome[m] = "skipped" =>
              \E r \in messages : r.id = m /\ r.processing_status = "processed"

(* C12: a field of a stored data map that holds a non-empty value keeps    *)
(* that value in every later state.                                        *)
C12_NonEmptyFieldKept ==
    [][\A r \in extracted : \A f \in Fields :
          r.data[f] # Empty =>
              \E r2 \in extracted' :
                  r2.inquiry_id = r.inquiry_id /\ r2.data[f] = r.data[f]]_vars

(* C13: every stored ExtractedData row has validation_status Complete      *)
(* exactly when no essential field is empty in its data map, and its       *)
(* missing_fields are the essential fields that are empty in that map.     *)
C13_StatusMatchesMergedData ==
    \A r \in extracted :
        /\ r.validation_status = validation_status(r.data)
        /\ r.missing_fields = missing_fields_list(r.data)

(* C14: once two chat messages whose extracted fields cover every          *)
(* essential field together, but not separately, are both ingested, one    *)
(* Inquiry row exists for the chat and its ExtractedData is Complete.      *)
C14_TwoChatMessagesComplete ==
    \A m1, m2 \in IngestMsgs :
        LET d1 == payloads[m1].extraction.data
            d2 == payloads[m2].extraction.data
        IN (/\ m1 # m2
            /\ payloads[m1].channel = "whatsapp" /\ payloads[m2].channel = "whatsapp"
            /\ outcome[m1] = "success" /\ outcome[m2] = "success"
            /\ \A f \in Fields : d1[f] # Empty \/ d2[f] # Empty
            /\ \E f \in Fields : d1[f] = Empty
            /\ \E f \in Fields : d2[f] = Empty)
           => /\ Cardinality(InquiriesOf(Identity("whatsapp"))) = 1
              /\ \A i \in InquiriesOf(Identity("whatsapp")) :
                    ExtractedRow(i).validation_status = "Complete"

(* C15: at most one Inquiry row exists per primary identity.               *)
C15_OneInquiryPerIdentity ==
    \A ch \in Channels : Cardinality(InquiriesOf(Identity(ch))) <= 1

(* C16: after a poll run whose provider fetch failed, the checkpoint is    *)
(* what it was before the run, the run enqueued no task, and the run       *)
(* raised.                                                                 *)
C16_FailedPollKeepsCheckpoint ==
    (poll.ran /\ poll.failed) =>
        /\ last_checked_timestamp[poll.by] = poll.before
        /\ poll.enqueued = 0
        /\ poll.raised

(* C17: after a poll run whose fetch succeeded, the checkpoint is the      *)
(* newest received_at of the fetched batch, and it is unchanged when the   *)
(* batch is empty.                                                         *)
C17_CheckpointIsNewestSeen ==
    (poll.ran /\ ~poll.failed) =>
        poll.after = IF poll.enqueued = 0 THEN poll.before ELSE poll.newest

(* C18: a poll run starts from the checkpoint written by the most recent   *)
(* poll run whose fetch succeeded, whichever process ran that one.         *)
C18_CheckpointIsShared ==
    (poll.ran /\ poll.durable # NoTime) => poll.since = poll.durable

(* C19: a task of a type the dispatcher does not know is attempted at most *)
(* once, and from its first attempt on it is in processing (the attempt    *)
(* is under way) or failed: it is never put back to pending.               *)
C19_UnknownTypeFailsAtOnce ==
    \A i \in TaskIds :
        tasks[i].task_type = "unknown_type" =>
            /\ tasks[i].attempts <= 1
            /\ tasks[i].attempts >= 1 => tasks[i].status \in {"processing", "failed"}

(* C20: no update is lost: the data map of an inquiry holds a value for    *)
(* every field that a message stored as processed for that inquiry         *)
(* carried.                                                                *)
C20_NoLostUpdate ==
    \A i \in 1..Len(inquiries) : \A m \in ProcessedFor(i) : \A f \in Fields :
        payloads[m].extraction.data[f] # Empty => ExtractedRow(i).data[f] # Empty

(* C21: a task that is failed after its retries has a last_error, and the  *)
(* message an email task was about is stored with the status failed.       *)
C21_FailedTaskMarksMessage ==
    \A i \in TaskIds :
        tasks[i].status = "failed" =>
            /\ tasks[i].last_error # NoError
            /\ tasks[i].task_type = "process_single_email" =>
                   \E r \in emails : /\ r.graph_id = tasks[i].msg
                                     /\ r.processing_status = "failed"

(* C24: a run of the email handler that started when the Email row of its  *)
(* message was already stored makes no provider fetch and no extraction.   *)
C24_NoFetchForStoredMessage ==
    \A w \in Workers : dupAtStart[w] => ~FetchCalled(w)

(* C25: the claim statement returns the claimable task that is first by    *)
(* (scheduled_for, id): no unlocked pending due task is before the task a  *)
(* worker selects.                                                         *)
C25_ClaimsEarliestFirst ==
    [][\A w \in Workers :
         (pc[w] = "idle" /\ pc'[w] = "selected") =>
             /\ tasks[cur'[w]].status = "pending"
             /\ \A j \in TaskIds \ {cur'[w]} :
                   (/\ tasks[j].status = "pending"
                    /\ tasks[j].scheduled_for <= now
                    /\ ~\E v \in Workers : pc[v] = "selected" /\ cur[v] = j)
                   => \/ tasks[cur'[w]].scheduled_for < tasks[j].scheduled_for
                      \/ /\ tasks[cur'[w]].scheduled_for = tasks[j].scheduled_for
                         /\ cur'[w] < j]_vars

C25_Witness ==
    \E w \in Workers : \E i \in TaskIds :
        /\ pc[w] = "selected"
        /\ i < cur[w]
        /\ tasks[i].status = "pending" /\ tasks[i].scheduled_for <= now
        /\ tasks[cur[w]].scheduled_for < tasks[i].scheduled_for
        /\ \A v \in Workers : cur[v] # i

(* C27: every change of a task from pending to processing happens at a     *)
(* time now with scheduled_for <= now.                                     *)
C27_NotClaimedBeforeDue ==
    [][\A i \in TaskIds :
         (tasks[i].status = "pending" /\ tasks'[i].status = "processing") =>
             tasks[i].scheduled_for <= now]_vars

C27_Witness ==
    \E i \in TaskIds :
        /\ tasks[i].status = "processing"
        /\ tasks[i].attempts >= 2
        /\ tasks[i].scheduled_for >= RETRY_BACKOFF_BASE_SECONDS
        /\ tasks[i].scheduled_for <= now

(* C28: a task becomes success only from processing, in the step of the    *)
(* worker whose handler call for the task's latest claim returned without  *)
(* raising; the step sets processed_at to now and clears last_error.       *)
C28_SuccessOnlyAfterReturn ==
    [][\A i \in TaskIds :
         (tasks[i].status # "success" /\ tasks'[i].status = "success") =>
             /\ tasks[i].status = "processing"
             /\ \E w \in Workers :
                   cur[w] = i /\ pc[w] = "finish" /\ hres[w] # "raise"
             /\ tasks'[i].processed_at = now
             /\ tasks'[i].last_error = NoError]_vars

C28_Witness ==
    \E i \in TaskIds :
        /\ tasks[i].status = "success"
        /\ tasks[i].attempts >= 2
        /\ tasks[i].processed_at >= RETRY_BACKOFF_BASE_SECONDS
        /\ tasks[i].last_error = NoError

(* C29: a task's attempts counter is the number of times the task was      *)
(* claimed, and it never exceeds MAX_TASK_RETRIES.                         *)
C29_AttemptsCountClaims ==
    \A i \in TaskIds :
        /\ tasks[i].attempts = handlerRuns[i]
        /\ tasks[i].attempts <= MAX_TASK_RETRIES

C29_Witness ==
    \E i \in TaskIds :
        /\ tasks[i].status = "pending"
        /\ tasks[i].attempts = MAX_TASK_RETRIES - 1
        /\ handlerRuns[i] = MAX_TASK_RETRIES - 1

(* C22: a provider call of fetch_new_emails_since that failed leaves the   *)
(* function as an exception; it is never reported as an empty batch.       *)
C22_FetchRaisesOnFailure ==
    (poll.ran /\ poll.failed) => poll.fetch_raised

(* C23: while the OpenAI API is unreachable, a message whose text reached  *)
(* the extraction is not stored as processed and its handler run does not  *)
(* end in success: the handler raises and the task is retried.             *)
C23_EngineFailureRaises ==
    \A m \in IngestMsgs :
        (~engine_up /\ payloads[m].extraction.has_keys) =>
            /\ outcome[m] # "success"
            /\ ~\E r \in messages : r.id = m /\ r.processing_status = "processed"

(* C26: the chat handler run on a message id that has a WhatsAppMessage    *)
(* row returns skipped without calling the extraction, and commits         *)
(* nothing: the one row of the message, the inquiries and the extracted    *)
(* data are as before.                                                     *)
C26_DuplicateChatMessageSkipped ==
    [][\A w \in Workers :
         (/\ run[w].pc = "resolve"
          /\ payloads[run[w].msg].channel = "whatsapp"
          /\ \E r \in messages : r.id = run[w].msg
          /\ run'[w].pc # "resolve")
         => /\ outcome'[run[w].msg] = "skipped"
            /\ run'[w].pc = "idle"
            /\ ~run[w].engine_called
            /\ Cardinality({r \in messages' : r.id = run[w].msg}) = 1
            /\ messages' = messages
            /\ inquiries' = inquiries
            /\ extracted' = extracted]_vars

C26_Witness ==
    \E m \in IngestMsgs :
        /\ payloads[m].channel = "whatsapp"
        /\ payloads[m].extraction.has_keys
        /\ outcome[m] = "skipped"
        /\ Cardinality({r \in messages : r.id = m}) = 1

(* C30: the commit of a chat message without text and without caption      *)
(* stores the message linked to its Inquiry, has made no call of the       *)
(* extraction, leaves the extracted data as they are, leaves the status    *)
(* of an existing Inquiry and gives a new Inquiry the status new_whatsapp. *)
C30_NoTextMessageStoredOnly ==
    [][\A w \in Workers :
         LET m == run[w].msg
             iid == IF run[w].created THEN Len(inquiries) + 1 ELSE run[w].inq
         IN (/\ run[w].pc = "commit"
             /\ payloads[m].channel = "whatsapp"
             /\ ~payloads[m].extraction.text
             /\ outcome'[m] = "success")
            => /\ [id |-> m, processing_status |-> "processed", inquiry_id |-> iid]
                      \in messages'
               /\ iid \in 1..Len(inquiries')
               /\ inquiries'[iid].primary_email_address = Identity("whatsapp")
               /\ ~run[w].engine_called
               /\ extracted' = extracted
               /\ inquiries'[iid].status =
                      IF run[w].created THEN "new_whatsapp" ELSE inquiries[iid].status
               /\ \A i \in 1..Len(inquiries) : i # iid => inquiries'[i] = inquiries[i]]_vars

C30_Witness ==
    \E m, n \in IngestMsgs : \E i \in 1..Len(inquiries) :
        /\ payloads[m].channel = "whatsapp" /\ ~payloads[m].extraction.text
        /\ payloads[n].extraction.has_keys
        /\ ProcessedFor(i) = {m, n}
        /\ inquiries[i].status = "Incomplete"
        /\ ExtractedRow(i).data = payloads[n].extraction.data

(* C33: after a poll run in which the classification of a message raised,  *)
(* no task was created for that message.                                   *)
C33_UnclassifiedNotEnqueued ==
    (poll.ran /\ poll.classify_failed # 0) => poll.classify_failed \notin poll.created

(* C34: a poll run in which the insert of one task failed appends a task   *)
(* for every other message of the batch and sets the checkpoint of its     *)
(* process to the time of the run.                                         *)
C34_FailedInsertSkipsOne ==
    [][(poll'.runs = poll.runs + 1 /\ poll'.insert_failed # 0) =>
          /\ poll'.created = poll'.batch \ {poll'.insert_failed}
          /\ Len(tasks') = Len(tasks) + Cardinality(poll'.batch) - 1
          /\ \A m \in poll'.batch \ {poll'.insert_failed} :
                \E i \in (Len(tasks) + 1)..Len(tasks') :
                    /\ tasks'[i].msg = m
                    /\ tasks'[i].task_type = "process_single_email"
                    /\ tasks'[i].status = "pending"
          /\ last_checked_timestamp'[poll'.by] = now]_vars

C34_Witness ==
    /\ poll.ran
    /\ poll.insert_failed # 0
    /\ Cardinality(poll.batch) = 2
    /\ \E i \in TaskIds : tasks[i].msg \in poll.batch \ {poll.insert_failed}
    /\ last_checked_timestamp[poll.by] = poll.after

(* C39: the checkpoint of a process is never later than the receive time   *)
(* of a message for which no ingestion task exists.                        *)
C39_CheckpointNotPastUnqueued ==
    \A w \in Workers : \A s \in mailbox :
        (last_checked_timestamp[w] # NoTime /\ s.received_at < last_checked_timestamp[w])
            => \E i \in TaskIds : tasks[i].msg = s.id

C32_MissingIdsRaiseEarly ==
    [][\A m \in IngestMsgs :
         (/\ payloads[m].channel = "whatsapp" /\ ~payloads[m].ids
          /\ outcome'[m] # outcome[m])
         => /\ outcome'[m] = "raised"
            /\ run' = run
            /\ inquiries' = inquiries
            /\ messages' = messages
            /\ extracted' = extracted]_vars

C32_Witness ==
    \E m \in IngestMsgs :
        /\ payloads[m].channel = "whatsapp" /\ ~payloads[m].ids
        /\ outcome[m] = "raised"
        /\ messages # {}
        /\ \A r \in messages : r.id # m

(* C35: an Inquiry that has extracted data from a message stored as        *)
(* processed has the status Complete or Incomplete that its data map       *)
(* amounts to.                                                             *)
C35_InquiryStatusIsCompleteness ==
    \A i \in 1..Len(inquiries) :
        (ExtractedOf(i) # {} /\ ProcessedFor(i) # {}) =>
            inquiries[i].status = validation_status(ExtractedRow(i).data)

(* C40: when the email handler returned for a message without raising (so  *)
(* that the worker records the task as success), the message is stored as  *)
(* processed and every field extracted from it has a value in the data map *)
(* of its Inquiry.                                                         *)
C40_SuccessMeansProcessed ==
    \A m \in IngestMsgs :
        (payloads[m].channel = "email" /\ outcome[m] \in {"success", "skipped"}) =>
            \E r \in messages :
                /\ r.id = m
                /\ r.processing_status = "processed"
                /\ \A f \in Fields :
                      payloads[m].extraction.data[f] # Empty =>
                          ExtractedRow(r.inquiry_id).data[f] # Empty

(* C36: no step takes away a value that a manual edit entered, and no step *)
(* changes the updated_by_user_id of a row once it is set.                 *)
C36_ManualValuesKept ==
    [][\A r \in extracted :
          \E r2 \in extracted' :
              /\ r2.inquiry_id = r.inquiry_id
              /\ r.updated_by_user_id # 0 => r2.updated_by_user_id = r.updated_by_user_id
              /\ \A f \in Fields : r.data[f] = ManualValue => r2.data[f] = ManualValue]_vars

(* C37: no task that a producer of the program enqueued is failed with a   *)
(* type the dispatcher has no branch for.                                  *)
C37_ProducedTypesAreHandled ==
    \A i \in TaskIds :
        tasks[i].status = "failed" => handle_task(tasks[i].task_type) # "raise"

(* C38: if some worker never leaves its loop, every task that is enqueued  *)
(* is eventually success or failed (a task rescheduled beyond the horizon  *)
(* of the model's clock counts as still on its way).                       *)
C38_EveryTaskEnds ==
    [](\E w \in Workers : pc[w] # "exited") =>
        \A i \in 1..MaxTasks :
            [](i \in TaskIds =>
                  <>(/\ i \in TaskIds
                     /\ \/ tasks[i].status \in {"success", "failed"}
                        \/ tasks[i].scheduled_for > MaxTime))
====
